---- MODULE Spec2Model ----
(***************************************************************************)
(* Model of the Batch VM Collector                                         *)
(* (config_files/cloud/gcp/kernel_collection.py).                          *)
(*                                                                         *)
(* Strings are sequences of one-character strings.  A character stands for *)
(* its class: what create_vm does to a name depends only on whether a      *)
(* character is alphanumeric (str.isalnum), one of "._-", or anything else.*)
(***************************************************************************)
EXTENDS Integers, Sequences, FiniteSets, TLC

\* ---------------------------------------------------------------- bounds
MaxTail == 3

\* ------------------------------------------------------- program constants
VmNameMax == 63
SleepSeconds == 20

\* ------------------------------------------------------------- characters
\* ASCII letters and digits (the ones the names of this model are made of).
AsciiAlnum == {"a", "Z", "7", "t", "e", "m", "p", "c", "o", "l"}
\* Alphanumeric characters outside ASCII: str.isalnum() is True for them.
UnicodeAlnum == {"é"}
\* Everything else that can occur in an image name.
OtherChars == {".", "-", "_", ":", "/", " "}

IsAlnum(c) == c \in AsciiAlnum \cup UnicodeAlnum

\* The characters a VM name may consist of: [a-zA-Z0-9._-].
NameChars == AsciiAlnum \cup {".", "_", "-"}

\* s.replace(old, new) for a one-character old.
ReplaceChar(s, old, new) ==
    [i \in 1..Len(s) |-> IF s[i] = old THEN new ELSE s[i]]

\* s.replace(c1 c2, ''): drops the non-overlapping occurrences of the
\* two-character substring, scanning from the left.
RECURSIVE RemovePair(_, _, _)
RemovePair(s, c1, c2) ==
    IF Len(s) < 2 THEN s
    ELSE IF s[1] = c1 /\ s[2] = c2
         THEN RemovePair(SubSeq(s, 3, Len(s)), c1, c2)
         ELSE <<s[1]>> \o RemovePair(Tail(s), c1, c2)

\* s[:n]
Prefix(s, n) == SubSeq(s, 1, IF Len(s) < n THEN Len(s) ELSE n)

EndsWith(s, c) == Len(s) > 0 /\ s[Len(s)] = c

TempCollect == <<"t", "e", "m", "p", "-", "c", "o", "l", "l", "e", "c", "t", "-">>

\* ''.join(c if c.isalnum() or c in '._-' else '-' for c in vm_name)
SanitizeChars(s) ==
    [i \in 1..Len(s) |->
        IF IsAlnum(s[i]) \/ s[i] \in {".", "_", "-"} THEN s[i] ELSE "-"]

\* if vm_name.endswith('-'): vm_name = vm_name[:-1]
StripOneHyphen(s) == IF EndsWith(s, "-") THEN SubSeq(s, 1, Len(s) - 1) ELSE s

\* create_vm, lines 90-95: the VM name derived from the image name.
VmName(image_name) ==
    LET named == TempCollect \o image_name
        sanitized == SanitizeChars(named)
        replaced == ReplaceChar(RemovePair(sanitized, ":", "/"), ".", "-")
        cut == Prefix(replaced, VmNameMax)
    IN  StripOneHyphen(cut)

\* ------------------------------------------------------------------ CSV
IsSpace(c) == c = " "

\* str.strip(): drops the leading and the trailing whitespace.
RECURSIVE LStrip(_)
LStrip(s) == IF Len(s) > 0 /\ IsSpace(s[1]) THEN LStrip(Tail(s)) ELSE s

RECURSIVE RStrip(_)
RStrip(s) ==
    IF Len(s) > 0 /\ IsSpace(s[Len(s)]) THEN RStrip(SubSeq(s, 1, Len(s) - 1)) ELSE s

Strip(s) == LStrip(RStrip(s))

\* process_images, lines 169-171: the rows that become images.  A row is the
\* list of its fields; Python's row[0], row[1] are row[1], row[2] here.
RECURSIVE ParseRows(_)
ParseRows(rows) ==
    IF rows = <<>> THEN <<>>
    ELSE LET row == Head(rows)
         IN  IF Len(row) >= 2 /\ Strip(row[2]) # <<>>
             THEN <<[image_project |-> Strip(row[1]), image_name |-> Strip(row[2])]>>
                  \o ParseRows(Tail(rows))
             ELSE ParseRows(Tail(rows))

\* str.lower() on the characters of this model.
Lower(s) == [i \in 1..Len(s) |-> IF s[i] = "Y" THEN "y" ELSE s[i]]

\* ---------------------------------------------------------------- state
VARIABLES
    env,            \* what the process finds around it: files, tool, project, answer
    csv,            \* the rows of the CSV file, header first
    max_concurrent, \* args.max_concurrent
    timeout,        \* args.timeout
    pc,             \* where main / process_images stands
    exit_code,      \* -1 while the process runs
    buckets,        \* the cloud: the names of the buckets that exist
    ensure_calls,   \* one record per call of ensure_gcs_bucket
    images,         \* process_images: the parsed (image_project, image_name) list
    jobs,           \* one record per submitted future / create_vm invocation
    next_future,    \* index of the future whose result() comes next
    successful,     \* process_images: counter
    failed,         \* process_images: counter
    summary,        \* the logged "All images processed" line, <<>> before
    watched,        \* the jobs whose bookkeeping fields are kept
    image_name_arg, \* argument of a single derivation of a VM name
    vm_name_ret,    \* its result
    check_arg,      \* what a single call of check_vm_completion finds
    check_ret,      \* its result and the commands it issued
    config_text,    \* the lines of a kernel config file, as a set
    config_ret      \* what parse_config makes of them

vars == <<env, csv, max_concurrent, timeout, pc, exit_code, buckets,
          ensure_calls, images, jobs, next_future, successful,
          failed, summary, watched, image_name_arg, vm_name_ret,
          check_arg, check_ret, config_text, config_ret>>

coordinatorVars == <<pc, exit_code, images, next_future, successful, failed, summary>>
cloudVars == <<buckets, ensure_calls>>
inputVars == <<env, csv, max_concurrent, timeout, watched>>
unitVars == <<check_arg, check_ret, config_text, config_ret>>
nameVars == <<image_name_arg, vm_name_ret, unitVars>>

NoName == <<"?">>

\* The value of an argument or result of a call that is not made.
Unset == <<>>

\* args.gcs_bucket
GcsBucket == "b"

\* --------------------------------------------------------- bucket ensurer
LifecycleAge == 14

BucketOps == << [op |-> "mb"],
                [op |-> "versioning", value |-> "on"],
                [op |-> "lifecycle", action |-> "Delete", age |-> LifecycleAge] >>

\* `gsutil ls -b gs://bucket`, stdout only: the bucket's URL when it exists,
\* nothing when it does not (the BucketNotFoundException goes to stderr).
LsBucketOutput(bucket_name) ==
    IF bucket_name \in buckets THEN <<"gs://", bucket_name>> ELSE <<>>

\* The slip `or output` for `or not output`.
BucketMissingOrOutput(output) == output = <<"BucketNotFoundException">> \/ output # <<>>

\* ensure_gcs_bucket, line 37.
BucketMissing(output) == output = <<"BucketNotFoundException">> \/ output = <<>>

\* ensure_gcs_bucket, lines 34-69.  failing = 0: every command succeeds;
\* failing = i: the i-th of mb / versioning / lifecycle exits non-zero and
\* run_command (check=True) raises, which nothing catches.
ensure_gcs_bucket(bucket_name, failing, after) ==
    LET call == [bucket_name |-> bucket_name, existed |-> bucket_name \in buckets]
        project == Strip(env.project)
    IN  IF ~BucketMissing(LsBucketOutput(bucket_name))
        THEN /\ ensure_calls' = Append(ensure_calls,
                    call @@ [issued |-> <<>>, returned |-> TRUE])
             /\ pc' = after
             /\ UNCHANGED <<buckets, exit_code>>
        ELSE IF project = <<>>
        THEN /\ ensure_calls' = Append(ensure_calls,
                    call @@ [issued |-> <<>>, returned |-> FALSE])
             /\ pc' = "exited"
             /\ exit_code' = 1
             /\ UNCHANGED buckets
        ELSE /\ ensure_calls' = Append(ensure_calls,
                    call @@ [issued |-> SubSeq(BucketOps, 1, IF failing = 0 THEN 3 ELSE failing),
                             returned |-> (failing = 0)])
             /\ buckets' = IF failing = 1 THEN buckets ELSE buckets \cup {bucket_name}
             /\ pc' = IF failing = 0 THEN after ELSE "crashed"
             /\ exit_code' = IF failing = 0 THEN exit_code ELSE 1

\* ------------------------------------------------------------------ main
\* main, lines 216-232: the collector script, the gcloud tool and the active
\* project are checked before anything is asked or done.
MainPreconditions ==
    /\ pc = "main"
    /\ IF env.collector_exists /\ env.gcloud_installed /\ Strip(env.project) # <<>>
       THEN pc' = "confirm" /\ UNCHANGED exit_code
       ELSE pc' = "exited" /\ exit_code' = 1
    /\ UNCHANGED <<images, next_future, successful, failed, summary>>
    /\ UNCHANGED <<cloudVars, inputVars, nameVars, jobs>>

\* A confirmation that goes on whatever the answer is.
ConfirmAnyAnswer ==
    /\ pc = "confirm"
    /\ pc' = "process_images"
    /\ UNCHANGED <<exit_code, images, next_future, successful, failed, summary>>
    /\ UNCHANGED <<cloudVars, inputVars, nameVars, jobs>>

\* main, lines 243-246: input(...).strip().lower() must be 'y'.
Confirm ==
    /\ pc = "confirm"
    /\ IF Lower(Strip(env.response)) = <<"y">>
       THEN pc' = "process_images" /\ UNCHANGED exit_code
       ELSE pc' = "exited" /\ exit_code' = 0
    /\ UNCHANGED <<images, next_future, successful, failed, summary>>
    /\ UNCHANGED <<cloudVars, inputVars, nameVars, jobs>>

\* process_images, lines 156-162: both files must exist.
ValidateFiles ==
    /\ pc = "process_images"
    /\ IF env.collector_exists /\ env.csv_exists
       THEN pc' = "ensure_bucket" /\ UNCHANGED exit_code
       ELSE pc' = "exited" /\ exit_code' = 1
    /\ UNCHANGED <<images, next_future, successful, failed, summary>>
    /\ UNCHANGED <<cloudVars, inputVars, nameVars, jobs>>

\* process_images, line 163.
EnsureBucket ==
    /\ pc = "ensure_bucket"
    /\ \E failing \in 0..3 : ensure_gcs_bucket(GcsBucket, failing, "parse")
    /\ UNCHANGED <<images, next_future, successful, failed, summary>>
    /\ UNCHANGED <<inputVars, nameVars, jobs>>

\* process_images, lines 165-177: next(reader) skips the header (and raises
\* StopIteration on a file without rows); no image left is fatal.
ParseCsv ==
    /\ pc = "parse"
    /\ IF csv = <<>>
       THEN pc' = "crashed" /\ exit_code' = 1 /\ UNCHANGED images
       ELSE LET parsed == ParseRows(Tail(csv))
            IN  IF parsed = <<>>
                THEN pc' = "exited" /\ exit_code' = 1 /\ UNCHANGED images
                ELSE pc' = "submit" /\ images' = parsed /\ UNCHANGED exit_code
    /\ UNCHANGED <<next_future, successful, failed, summary>>
    /\ UNCHANGED <<cloudVars, inputVars, nameVars, jobs>>

\* A future right after executor.submit(create_vm, image_name, image_project, ...).
\* The fields from `creates` on are bookkeeping about what the job did; they
\* are kept for the jobs in `watched` only.
NewJob(image) ==
    [ image_project |-> image.image_project,
      image_name |-> image.image_name,
      vm_name |-> NoName,
      pc |-> "queued",
      now |-> 0,                  \* time.time() - start_time
      completion_signal |-> FALSE,
      ret |-> FALSE,
      signal |-> "none",          \* the cloud: which completion signal is there
      creates |-> 0, polls |-> 0, sleeps |-> 0, deletes |-> 0,
      caught |-> FALSE,           \* the except clause was entered
      vm_made |-> FALSE,          \* the create request brought a VM into existence
      timed_out |-> FALSE,        \* the loop was left because of the timeout
      signal_when |-> "never" ]   \* the signal showed: "early" is before timeout

\* process_images, lines 183-186: one future per image, in list order.
Submit ==
    /\ pc = "submit"
    /\ jobs' = Append(jobs, NewJob(images[Len(jobs) + 1]))
    /\ pc' = IF Len(jobs) + 1 = Len(images) THEN "await" ELSE "submit"
    /\ UNCHANGED <<exit_code, images, next_future, successful, failed, summary>>
    /\ UNCHANGED <<cloudVars, inputVars, nameVars>>

Finished(j) == jobs[j].pc \in {"returned", "raised"}

\* A tally that counts a failure as a success too.
TallyBoth(result) ==
    [successful |-> successful + 1, failed |-> IF result THEN failed ELSE failed + 1]

\* process_images, lines 189-192: the counters after one more result.
Tally(result) ==
    IF result THEN [successful |-> successful + 1, failed |-> failed]
    ELSE [successful |-> successful, failed |-> failed + 1]

\* A result() that does not wait for its future.
AwaitFutureNoWait ==
    /\ pc = "await"
    /\ next_future <= Len(jobs)
    /\ IF jobs[next_future].pc = "raised"
       THEN /\ pc' = "shutdown"
            /\ UNCHANGED <<next_future, successful, failed>>
       ELSE /\ successful' = Tally(jobs[next_future].ret).successful
            /\ failed' = Tally(jobs[next_future].ret).failed
            /\ next_future' = next_future + 1
            /\ pc' = IF next_future = Len(jobs) THEN "summary" ELSE "await"
    /\ UNCHANGED <<exit_code, images, summary>>
    /\ UNCHANGED <<cloudVars, inputVars, nameVars, jobs>>

\* process_images, lines 188-192: future.result() in submission order.  A
\* future that holds an exception re-raises it here and the loop is left.
AwaitFuture ==
    /\ pc = "await"
    /\ next_future <= Len(jobs)
    /\ Finished(next_future)
    /\ IF jobs[next_future].pc = "raised"
       THEN /\ pc' = "shutdown"
            /\ UNCHANGED <<next_future, successful, failed>>
       ELSE /\ successful' = Tally(jobs[next_future].ret).successful
            /\ failed' = Tally(jobs[next_future].ret).failed
            /\ next_future' = next_future + 1
            /\ pc' = IF next_future = Len(jobs) THEN "summary" ELSE "await"
    /\ UNCHANGED <<exit_code, images, summary>>
    /\ UNCHANGED <<cloudVars, inputVars, nameVars, jobs>>

\* The with-block left by an exception: executor.shutdown(wait=True) lets
\* every submitted job finish, then the exception ends the process.
ShutdownAfterRaise ==
    /\ pc = "shutdown"
    /\ \A j \in 1..Len(jobs) : Finished(j)
    /\ pc' = "crashed"
    /\ exit_code' = 1
    /\ UNCHANGED <<images, next_future, successful, failed, summary>>
    /\ UNCHANGED <<cloudVars, inputVars, nameVars, jobs>>

\* process_images, lines 194-195, and the rest of main: the summary line.
Summary ==
    /\ pc = "summary"
    /\ summary' = <<[successful |-> successful, failed |-> failed]>>
    /\ pc' = "done"
    /\ exit_code' = 0
    /\ UNCHANGED <<images, next_future, successful, failed>>
    /\ UNCHANGED <<cloudVars, inputVars, nameVars, jobs>>

\* ------------------------------------------------------------ job runner
MaxTimeout == 30
CmdSeconds == 12

\* A command takes a second or CmdSeconds; the clock is only read in the
\* poll loop, so only the loop's commands and its sleep advance it.
CmdDurations == {1, CmdSeconds}

Min(a, b) == IF a < b THEN a ELSE b

\* The clock after d more seconds.  Beyond every timeout of the model the
\* comparison with timeout no longer changes, so the value is capped there.
Later(now, d) == Min(now + d, MaxTimeout + 1)

Running(j) == jobs[j].pc \notin {"queued", "returned", "raised"}

Polling(job) == job.pc \in {"check_storage", "check_metadata", "sleep"}

\* `needle in text`: the needle is a run of consecutive pieces of the text.
\* Command outputs are sequences of pieces (a name, a separator, a key).
Contains(text, needle) ==
    \E i \in 1..(Len(text) - Len(needle) + 1) :
        SubSeq(text, i, i + Len(needle) - 1) = needle

\* The names of the two artifacts of an image.
Artifacts(image_name) == {<<"system_info.txt">>, image_name \o <<".config">>}

\* Another object the collector may leave under the image's prefix.
OtherObject == <<"dmesg.log">>

\* The order in which `gsutil ls` lists the objects under the prefix.
ObjectOrder(image_name) ==
    <<image_name \o <<".config">>, OtherObject, <<"system_info.txt">> >>

RECURSIVE LsLines(_, _, _)
LsLines(prefix, names, objects) ==
    IF names = <<>> THEN <<>>
    ELSE (IF Head(names) \in objects THEN prefix \o Head(names) \o <<"\n">> ELSE <<>>)
         \o LsLines(prefix, Tail(names), objects)

\* check_vm_completion, line 72: the stdout of
\* `gsutil ls gs://bucket/image/ 2>/dev/null || echo 'No files found'`,
\* one URL per object, or the echoed words when gsutil finds none.
LsOutput(gcs_bucket, image_name, objects) ==
    LET prefix == <<"gs://">> \o gcs_bucket \o <<"/">> \o image_name \o <<"/">>
        lines == LsLines(prefix, ObjectOrder(image_name), objects)
    IN  IF lines = <<>> THEN <<"No files found">> ELSE lines

\* What `gsutil ls` can print for a job while the cloud is in state signal:
\* both artifacts once the storage signal is there, fewer before.
Listings(job) ==
    {LsOutput(<<GcsBucket>>, job.image_name, objects) :
        objects \in IF job.signal = "storage"
                    THEN {Artifacts(job.image_name)}
                    ELSE SUBSET Artifacts(job.image_name) \ {Artifacts(job.image_name)}}

\* How `gcloud ... --format='json(metadata.items)'` lays its JSON out: the
\* printer indents, one key per line; "compact" is the one-line layout.
Renderings == {"compact", "indented"}

KeyPiece == "\"key\": \"completion-status\""
ValuePiece == "\"value\": "

\* check_vm_completion, lines 79-80: the stdout of the describe command
\* for an instance whose completion-status is status ("none": no such key).
DescribeOutput(status, rendering) ==
    IF status = "none" THEN <<"{", "}">>
    ELSE IF rendering = "compact"
    THEN <<"{", KeyPiece, ", ", ValuePiece, status, "}">>
    ELSE <<"{", "\n", KeyPiece, ",", "\n", ValuePiece, status, "\n", "}">>

\* What the describe command can print while the cloud is in state signal.
MetadataValues(signal) ==
    {DescribeOutput(IF signal = "metadata" THEN "success" ELSE "none", rendering) :
        rendering \in Renderings}

\* check_vm_completion, line 75: two substring tests on the listing.
StorageComplete(ls_output, image_name) ==
    /\ Contains(ls_output, <<"system_info.txt">>)
    /\ Contains(ls_output, image_name \o <<".config">>)

\* check_vm_completion, line 82: a substring test on the JSON text.
MetadataComplete(metadata) ==
    Contains(metadata, <<KeyPiece, ", ", ValuePiece, "success">>)

\* The record of a job the bookkeeping of which is not kept.
Unwatched(job) ==
    [job EXCEPT !.creates = 0, !.polls = 0, !.sleeps = 0, !.deletes = 0,
                !.caught = FALSE, !.vm_made = FALSE, !.timed_out = FALSE,
                !.signal_when = "never"]

\* The poll loop is left (or was never entered): the clock is not read again
\* and nobody looks at the signal of this job any more.
Past(job) ==
    IF job.pc \in {"delete", "except", "returned", "raised"}
    THEN [job EXCEPT !.now = 0, !.signal = "none"]
    ELSE job

Keep(j, job) == IF j \in watched THEN Past(job) ELSE Unwatched(Past(job))

\* create_vm is left: its locals are gone.
Leave(j, job) ==
    IF j \in watched THEN Past(job)
    ELSE Unwatched(Past([job EXCEPT !.completion_signal = FALSE]))

\* A pool that starts one worker too many.
WorkerFreeOffByOne == Cardinality({k \in 1..Len(jobs) : Running(k)}) <= max_concurrent

\* ThreadPoolExecutor(max_workers=max_concurrent): a worker is free.
WorkerFree == Cardinality({k \in 1..Len(jobs) : Running(k)}) < max_concurrent

\* A worker takes the oldest queued work item and enters create_vm
\* (lines 88-98): the VM name is derived.
StartJob(j) ==
    /\ jobs[j].pc = "queued"
    /\ \A k \in 1..(j - 1) : jobs[k].pc # "queued"
    /\ WorkerFree
    /\ jobs' = [jobs EXCEPT ![j].vm_name = VmName(jobs[j].image_name),
                            ![j].pc = "create"]
    /\ UNCHANGED <<coordinatorVars, cloudVars, inputVars, nameVars>>

\* A loop that makes its first check before it looks at the clock.
LoopHeadCheckFirst(now) == IF now > timeout /\ now > 0 THEN "delete" ELSE "check_storage"

\* create_vm, lines 125-130: the head of the loop, reached with the clock at now.
LoopHead(now) == IF now > timeout THEN "delete" ELSE "check_storage"

\* A create command that is issued once more when its output has ERROR in it.
CreateVmRetries(j) ==
    /\ jobs[j].pc = "create"
    /\ LET job == [jobs[j] EXCEPT !.creates = @ + 1]
       IN  \/ jobs' = [jobs EXCEPT ![j] =
                Keep(j, [job EXCEPT !.vm_made = TRUE, !.now = 0, !.pc = LoopHead(0),
                                    !.timed_out = (LoopHead(0) = "delete")])]
           \/ jobs' = [jobs EXCEPT ![j] =
                Leave(j, [job EXCEPT !.creates = @ + 1, !.pc = "returned", !.ret = FALSE])]
           \/ \E made \in BOOLEAN :
                jobs' = [jobs EXCEPT ![j] =
                    Keep(j, [job EXCEPT !.vm_made = made, !.pc = "except", !.caught = TRUE])]
    /\ UNCHANGED <<coordinatorVars, cloudVars, inputVars, nameVars>>

\* create_vm, lines 102-130: the create command.  It comes back clean (the
\* instance exists, the clock starts and the loop is entered), comes back
\* with ERROR in its output, or run_command raises, with the instance made
\* or not.
CreateVm(j) ==
    /\ jobs[j].pc = "create"
    /\ LET job == [jobs[j] EXCEPT !.creates = @ + 1]
       IN  \/ jobs' = [jobs EXCEPT ![j] =
                Keep(j, [job EXCEPT !.vm_made = TRUE, !.now = 0, !.pc = LoopHead(0),
                                    !.timed_out = (LoopHead(0) = "delete")])]
           \/ jobs' = [jobs EXCEPT ![j] =
                Leave(j, [job EXCEPT !.pc = "returned", !.ret = FALSE])]
           \/ \E made \in BOOLEAN :
                jobs' = [jobs EXCEPT ![j] =
                    Keep(j, [job EXCEPT !.vm_made = made, !.pc = "except", !.caught = TRUE])]
    /\ UNCHANGED <<coordinatorVars, cloudVars, inputVars, nameVars>>

\* check_vm_completion, lines 72-77, called from line 132.
CheckStorage(j) ==
    /\ jobs[j].pc = "check_storage"
    /\ LET job == [jobs[j] EXCEPT !.polls = @ + 1]
       IN  \/ \E d \in CmdDurations, ls_output \in Listings(job) :
                jobs' = [jobs EXCEPT ![j] = Keep(j,
                    IF StorageComplete(ls_output, job.image_name)
                    THEN [job EXCEPT !.now = Later(@, d), !.completion_signal = TRUE,
                                     !.pc = "delete"]
                    ELSE [job EXCEPT !.now = Later(@, d), !.pc = "check_metadata"])]
           \/ jobs' = [jobs EXCEPT ![j] =
                Keep(j, [job EXCEPT !.pc = "except", !.caught = TRUE])]
    /\ UNCHANGED <<coordinatorVars, cloudVars, inputVars, nameVars>>

\* The loop without its `break`: the signal is noted and the job sleeps on.
CheckMetadataNoBreak(j) ==
    /\ jobs[j].pc = "check_metadata"
    /\ \E d \in CmdDurations, metadata \in MetadataValues(jobs[j].signal) :
        jobs' = [jobs EXCEPT ![j] = Keep(j,
            [jobs[j] EXCEPT !.now = Later(@, d), !.pc = "sleep",
                            !.completion_signal = MetadataComplete(metadata)])]
    /\ UNCHANGED <<coordinatorVars, cloudVars, inputVars, nameVars>>

\* check_vm_completion, lines 79-86, and lines 133-137.
CheckMetadata(j) ==
    /\ jobs[j].pc = "check_metadata"
    /\ LET job == jobs[j]
       IN  \/ \E d \in CmdDurations, metadata \in MetadataValues(job.signal) :
                jobs' = [jobs EXCEPT ![j] = Keep(j,
                    IF MetadataComplete(metadata)
                    THEN [job EXCEPT !.now = Later(@, d), !.completion_signal = TRUE,
                                     !.pc = "delete"]
                    ELSE [job EXCEPT !.now = Later(@, d), !.pc = "sleep"])]
           \/ jobs' = [jobs EXCEPT ![j] =
                Keep(j, [job EXCEPT !.pc = "except", !.caught = TRUE])]
    /\ UNCHANGED <<coordinatorVars, cloudVars, inputVars, nameVars>>

\* A sleep of half the time.
SleepHalf(j) ==
    /\ jobs[j].pc = "sleep"
    /\ LET woken == Later(jobs[j].now, SleepSeconds \div 2)
       IN  jobs' = [jobs EXCEPT ![j] = Keep(j,
                [jobs[j] EXCEPT !.now = woken, !.sleeps = @ + 1, !.pc = LoopHead(woken),
                                !.timed_out = (LoopHead(woken) = "delete")])]
    /\ UNCHANGED <<coordinatorVars, cloudVars, inputVars, nameVars>>

\* create_vm, line 138 and lines 125-130: time.sleep(20), then the head of
\* the loop again.
Sleep(j) ==
    /\ jobs[j].pc = "sleep"
    /\ LET woken == Later(jobs[j].now, SleepSeconds)
       IN  jobs' = [jobs EXCEPT ![j] = Keep(j,
                [jobs[j] EXCEPT !.now = woken, !.sleeps = @ + 1, !.pc = LoopHead(woken),
                                !.timed_out = (LoopHead(woken) = "delete")])]
    /\ UNCHANGED <<coordinatorVars, cloudVars, inputVars, nameVars>>

\* create_vm without the test of completion_signal after the deletion.
DeleteVmReturnsTrue(j) ==
    /\ jobs[j].pc = "delete"
    /\ jobs' = [jobs EXCEPT ![j] =
            Leave(j, [jobs[j] EXCEPT !.deletes = @ + 1, !.pc = "returned", !.ret = TRUE])]
    /\ UNCHANGED <<coordinatorVars, cloudVars, inputVars, nameVars>>

\* create_vm, lines 140-148: the delete command (check=False: whether the
\* instance really went is not looked at), then the result.
DeleteVm(j) ==
    /\ jobs[j].pc = "delete"
    /\ LET job == [jobs[j] EXCEPT !.deletes = @ + 1]
       IN  \/ jobs' = [jobs EXCEPT ![j] =
                Leave(j, [job EXCEPT !.pc = "returned", !.ret = job.completion_signal])]
           \/ jobs' = [jobs EXCEPT ![j] =
                Keep(j, [job EXCEPT !.pc = "except", !.caught = TRUE])]
    /\ UNCHANGED <<coordinatorVars, cloudVars, inputVars, nameVars>>

\* An except clause that only logs.
ExceptNoDelete(j) ==
    /\ jobs[j].pc = "except"
    /\ jobs' = [jobs EXCEPT ![j] = Leave(j, [jobs[j] EXCEPT !.pc = "returned", !.ret = FALSE])]
    /\ UNCHANGED <<coordinatorVars, cloudVars, inputVars, nameVars>>

\* create_vm, lines 150-153: the except clause.  Its own delete command is
\* not guarded: when run_command raises again the exception leaves create_vm.
ExceptDelete(j) ==
    /\ jobs[j].pc = "except"
    /\ LET job == [jobs[j] EXCEPT !.deletes = @ + 1]
       IN  \/ jobs' = [jobs EXCEPT ![j] =
                Leave(j, [job EXCEPT !.pc = "returned", !.ret = FALSE])]
           \/ jobs' = [jobs EXCEPT ![j] = Leave(j, [job EXCEPT !.pc = "raised"])]
    /\ UNCHANGED <<coordinatorVars, cloudVars, inputVars, nameVars>>

\* The cloud: the VM's collector script gets its artifacts into the bucket,
\* or sets completion-status=success, while the job polls.
SignalAppears(j) ==
    /\ Polling(jobs[j])
    /\ jobs[j].signal = "none"
    /\ \E kind \in {"storage", "metadata"} :
        jobs' = [jobs EXCEPT ![j] = Keep(j,
            [jobs[j] EXCEPT !.signal = kind,
                            !.signal_when = IF jobs[j].now < timeout THEN "early" ELSE "late"])]
    /\ UNCHANGED <<coordinatorVars, cloudVars, inputVars, nameVars>>

\* ------------------------------------------------------------- the inputs
MaxRows == 2
MaxConcurrent == 2

Header == << <<"p", "r", "o", "j">>, <<"i", "m", "g">> >>

\* The data rows files are made of: two images of one name in two projects,
\* a name that sanitizes to another one's, a third field, and the rows that
\* lack a field.
Rows == { << <<"p">>, <<"a">> >>,
          << <<"q">>, <<"a">> >>,
          << <<"p">>, <<" ", "a", "-", "-">>, <<"x">> >>,
          << <<"p">> >>,
          << <<"p">>, <<" ">> >>,
          << <<>>, <<"a", ".", ".">> >>,
          << >> }

RECURSIVE SeqsUpTo(_, _)
SeqsUpTo(S, n) ==
    IF n = 0 THEN {<<>>}
    ELSE LET shorter == SeqsUpTo(S, n - 1)
         IN  shorter \cup {Append(s, x) : s \in shorter, x \in S}

CsvFiles == {<<>>} \cup {<<Header>> \o rows : rows \in SeqsUpTo(Rows, MaxRows)}

Timeouts == {-1, 10, MaxTimeout}

Responses == {<<"y">>, <<" ", "Y">>, <<"n">>, <<>>, <<"y", "e", "s">>}

Envs == [collector_exists : BOOLEAN, csv_exists : BOOLEAN, gcloud_installed : BOOLEAN,
         project : {<<>>, <<"p">>}, response : Responses]

\* The process with the given inputs around it, nothing done yet.
InitWith(envs, clouds, files, concurrents, timeouts, watch) ==
    /\ env \in envs
    /\ csv \in files
    /\ max_concurrent \in concurrents
    /\ timeout \in timeouts
    /\ watched = watch
    /\ exit_code = -1
    /\ buckets \in clouds
    /\ ensure_calls = <<>>
    /\ images = <<>>
    /\ jobs = <<>>
    /\ next_future = 1
    /\ successful = 0
    /\ failed = 0
    /\ summary = <<>>
    /\ vm_name_ret = NoName
    /\ check_ret = Unset
    /\ config_ret = Unset

\* No call of check_vm_completion or parse_config on its own.
NoUnitArgs == check_arg = Unset /\ config_text = {}

\* The process at the start of main.
AtMain == pc = "main" /\ image_name_arg = NoName /\ NoUnitArgs

Init == InitWith(Envs, {{}, {GcsBucket}}, CsvFiles, 1..MaxConcurrent, {10}, {}) /\ AtMain

Next ==
    \/ MainPreconditions
    \/ Confirm
    \/ ValidateFiles
    \/ EnsureBucket
    \/ ParseCsv
    \/ Submit
    \/ AwaitFuture
    \/ ShutdownAfterRaise
    \/ Summary
    \/ \E j \in 1..Len(jobs) : StartJob(j)
    \/ \E j \in 1..Len(jobs) : CreateVm(j)
    \/ \E j \in 1..Len(jobs) : CheckStorage(j)
    \/ \E j \in 1..Len(jobs) : CheckMetadata(j)
    \/ \E j \in 1..Len(jobs) : Sleep(j)
    \/ \E j \in 1..Len(jobs) : DeleteVm(j)
    \/ \E j \in 1..Len(jobs) : ExceptDelete(j)
    \/ \E j \in 1..Len(jobs) : SignalAppears(j)

\* The whole program, from main on, over every environment and CSV file.
Spec == Init /\ [][Next]_vars

\* An environment in which main and process_images get as far as the jobs.
GoodEnv == [collector_exists |-> TRUE, csv_exists |-> TRUE, gcloud_installed |-> TRUE,
            project |-> <<"p">>, response |-> <<"y">>]

\* ----------------------------------------------- the job runner, watched
JobFiles == { <<Header, << <<"p">>, <<"a">> >> >>,
              <<Header, << <<"p">>, <<"a">> >>, << <<"q">>, <<"b">> >> >> }

InitJob ==
    InitWith({GoodEnv}, {{GcsBucket}}, JobFiles, 1..MaxConcurrent, Timeouts, {1, 2}) /\ AtMain

SpecJob == InitJob /\ [][Next]_vars

\* One step of the worker thread that runs job j: the command it is at
\* comes back (or raises), or its sleep ends.
JobStep(j) ==
    /\ j <= Len(jobs)
    /\ \/ CreateVm(j)
       \/ CheckStorage(j)
       \/ CheckMetadata(j)
       \/ Sleep(j)
       \/ DeleteVm(j)
       \/ ExceptDelete(j)

\* Every command a job waits for comes back and the clock advances: a
\* worker thread that can take its next step takes it.
SpecJobFair == SpecJob /\ \A j \in {1, 2} : WF_vars(JobStep(j))

\* ------------------------------------------------------- the worker pool
MaxImages == 5

PoolRow(i) == IF i % 2 = 1 THEN << <<"p">>, <<"a">> >> ELSE << <<"q">>, <<"a">> >>

PoolFiles == {<<Header>> \o [i \in 1..n |-> PoolRow(i)] : n \in 1..MaxImages}

InitPool ==
    InitWith({GoodEnv}, {{GcsBucket}}, PoolFiles, 1..MaxConcurrent, {10}, {}) /\ AtMain

SpecPool == InitPool /\ [][Next]_vars

\* ------------------------------------------- the bucket ensurer, repeated
MaxCalls == 3

BucketNames == {"b", "c", "d"}

InitBucket ==
    /\ InitWith({GoodEnv}, SUBSET BucketNames, {<<Header>>}, {1}, {10}, {})
    /\ pc = "ensure_bucket"
    /\ image_name_arg = NoName
    /\ NoUnitArgs

\* One more call of ensure_gcs_bucket in the same process.
EnsureAgain ==
    /\ pc = "ensure_bucket"
    /\ Len(ensure_calls) < MaxCalls
    /\ \E bucket_name \in BucketNames, failing \in 0..3 :
        ensure_gcs_bucket(bucket_name, failing, "ensure_bucket")
    /\ UNCHANGED <<images, next_future, successful, failed, summary>>
    /\ UNCHANGED <<inputVars, nameVars, jobs>>

NextBucket == EnsureAgain

SpecBucket == InitBucket /\ [][NextBucket]_vars

\* ------------------------------------------- the VM name, every image name
NameAlphabet == {"a"} \cup UnicodeAlnum \cup OtherChars

Tails == SeqsUpTo(NameAlphabet, MaxTail) \ {<<>>}

\* So many "a" in front of a tail that the name ends around the cut at
\* VmNameMax characters, or none.
PadLengths == {0} \cup ((VmNameMax - Len(TempCollect) - MaxTail)..(VmNameMax - Len(TempCollect)))

ImageNames == {[i \in 1..k |-> "a"] \o tail : k \in PadLengths, tail \in Tails}

InitVmName ==
    /\ InitWith({GoodEnv}, {{GcsBucket}}, {<<Header>>}, {1}, {10}, {})
    /\ pc = "create_vm"
    /\ image_name_arg \in ImageNames
    /\ NoUnitArgs

\* create_vm, lines 90-95, on its own.
DeriveVmName ==
    /\ pc = "create_vm"
    /\ vm_name_ret = NoName
    /\ vm_name_ret' = VmName(image_name_arg)
    /\ UNCHANGED <<coordinatorVars, cloudVars, inputVars, jobs, image_name_arg, unitVars>>

NextVmName == DeriveVmName

SpecVmName == InitVmName /\ [][NextVmName]_vars

\* ------------------------------------- the completion check, on its own
\* Bucket and image names of which one has the other's config name in it.
CheckBuckets == {<<GcsBucket>>, <<"a", ".config", "s">>}

CheckImages == {<<"a">>, <<"k">>}

CheckArgs ==
    UNION {[gcs_bucket : CheckBuckets, image_name : {image_name},
            objects : SUBSET (Artifacts(image_name) \cup {OtherObject}),
            status : {"none", "success", "failure"},
            rendering : Renderings] : image_name \in CheckImages}

\* check_vm_completion, lines 71-86: the result and the commands issued.
check_vm_completion(arg) ==
    LET ls_output == LsOutput(arg.gcs_bucket, arg.image_name, arg.objects)
        metadata == DescribeOutput(arg.status, arg.rendering)
    IN  IF StorageComplete(ls_output, arg.image_name)
        THEN [result |-> TRUE, commands |-> <<"ls">>]
        ELSE [result |-> MetadataComplete(metadata), commands |-> <<"ls", "describe">>]

InitCheck ==
    /\ InitWith({GoodEnv}, {{GcsBucket}}, {<<Header>>}, {1}, {10}, {})
    /\ pc = "check_vm_completion"
    /\ image_name_arg = NoName
    /\ check_arg \in CheckArgs
    /\ config_text = {}

CheckVmCompletion ==
    /\ pc = "check_vm_completion"
    /\ check_ret' = check_vm_completion(check_arg)
    /\ pc' = "checked"
    /\ UNCHANGED <<exit_code, images, next_future, successful, failed, summary>>
    /\ UNCHANGED <<cloudVars, inputVars, jobs, image_name_arg, vm_name_ret,
                   check_arg, config_text, config_ret>>

NextCheck == CheckVmCompletion

SpecCheck == InitCheck /\ [][NextCheck]_vars

\* ------------------------------------------ the kernel config summarizer
\* kconfigs_init_parser.py, lines 11-17.  A dict keeps its insertion order.
STACK_OPTIONS == << [option |-> "CONFIG_INIT_STACK_NONE", value |-> "none"],
                    [option |-> "CONFIG_INIT_STACK_ALL_PATTERN", value |-> "pattern"],
                    [option |-> "CONFIG_INIT_STACK_ALL_ZERO", value |-> "zero"] >>

HEAP_OPTION == "CONFIG_INIT_ON_ALLOC_DEFAULT_ON"

DEFAULT_VALUE == "unknown"

\* The lines f"{option}=y" and f"# {option} is not set", in pieces.
SetLine(option) == <<option, "=y">>
NotSetLine(option) == <<"# ", option, " is not set">>

\* A status that looks for the "is not set" line first.
NotSetFirstStatus(option, config_lines) ==
    IF NotSetLine(option) \in config_lines THEN "False"
    ELSE IF SetLine(option) \in config_lines THEN "True"
    ELSE "None"

\* get_config_status, lines 20-25: True, False or None.
get_config_status(option, config_lines) ==
    IF SetLine(option) \in config_lines THEN "True"
    ELSE IF NotSetLine(option) \in config_lines THEN "False"
    ELSE "None"

\* parse_config, lines 33-37: the value of the first stack option that is
\* set, DEFAULT_VALUE when the loop ends without a break.
RECURSIVE FirstSetValue(_, _)
FirstSetValue(options, config_lines) ==
    IF options = <<>> THEN DEFAULT_VALUE
    ELSE IF get_config_status(Head(options).option, config_lines) = "True"
    THEN Head(options).value
    ELSE FirstSetValue(Tail(options), config_lines)

\* parse_config, lines 30-47, for a file that can be read.
parse_config(text) ==
    LET config_lines == {Strip(line) : line \in text}
        first == FirstSetValue(STACK_OPTIONS, config_lines)
        init_stack ==
            IF /\ first = DEFAULT_VALUE
               /\ \A i \in 1..Len(STACK_OPTIONS) :
                     get_config_status(STACK_OPTIONS[i].option, config_lines) = "False"
            THEN "none" ELSE first
        heap_status == get_config_status(HEAP_OPTION, config_lines)
        init_heap == IF heap_status = "True" THEN "zero"
                     ELSE IF heap_status = "False" THEN "none"
                     ELSE DEFAULT_VALUE
    IN  [init_stack |-> init_stack, init_heap |-> init_heap]

\* The lines config files are made of: the two lines of each option, an
\* indented line, a commented-out assignment and a module assignment.
ConfigLines ==
    {SetLine(STACK_OPTIONS[i].option) : i \in 1..3}
    \cup {NotSetLine(STACK_OPTIONS[i].option) : i \in 1..3}
    \cup {SetLine(HEAP_OPTION), NotSetLine(HEAP_OPTION),
          <<" ", " ">> \o SetLine(HEAP_OPTION) \o <<" ">>,
          <<"# ", "CONFIG_INIT_STACK_ALL_ZERO", "=y">>,
          <<"CONFIG_INIT_STACK_ALL_PATTERN", "=m">>}

InitConfig ==
    /\ InitWith({GoodEnv}, {{GcsBucket}}, {<<Header>>}, {1}, {10}, {})
    /\ pc = "parse_config"
    /\ image_name_arg = NoName
    /\ check_arg = Unset
    /\ config_text \in SUBSET ConfigLines

\* parse_config, lines 28-54: the summary of the file, or the two default
\* values when the file cannot be read.
ParseConfig ==
    /\ pc = "parse_config"
    /\ \/ config_ret' = parse_config(config_text) /\ pc' = "parsed"
       \/ /\ config_ret' = [init_stack |-> DEFAULT_VALUE, init_heap |-> DEFAULT_VALUE]
          /\ pc' = "parse_failed"
    /\ UNCHANGED <<exit_code, images, next_future, successful, failed, summary>>
    /\ UNCHANGED <<cloudVars, inputVars, jobs, image_name_arg, vm_name_ret,
                   check_arg, check_ret, config_text>>

NextConfig == ParseConfig

SpecConfig == InitConfig /\ [][NextConfig]_vars

\* =================================================================== claims
WatchedJobs == watched \cap (1..Len(jobs))

\* C1 (as claimed): every derived VM name is at most 63 characters long,
\* consists of [a-zA-Z0-9._-] only and does not end with '-'.
C1_VmNameWellFormed ==
    vm_name_ret # NoName =>
        /\ Len(vm_name_ret) <= VmNameMax
        /\ \A i \in 1..Len(vm_name_ret) : vm_name_ret[i] \in NameChars
        /\ ~EndsWith(vm_name_ret, "-")

\* C2 (as claimed): two jobs of distinct ImageSpecs never have the same VM name.
C2_VmNamesUnique ==
    \A i, k \in 1..Len(jobs) :
        /\ i # k
        /\ jobs[i].vm_name # NoName
        /\ jobs[k].vm_name # NoName
        /\ <<jobs[i].image_project, jobs[i].image_name>>
              # <<jobs[k].image_project, jobs[k].image_name>>
        => jobs[i].vm_name # jobs[k].vm_name

C5_DeletionAlwaysIssued ==
    \A j \in WatchedJobs : jobs[j].pc = "returned" => jobs[j].deletes >= 1

\* C5 (amended): whenever a job has returned or raised, a deletion request
\* has been issued, unless the create command reported an error: then the
\* job returns failure with one create request, no check and no deletion.
\* A job whose create request made a VM never ends without a deletion request.
C5_DeletionUnlessCreateError ==
    \A j \in WatchedJobs :
        Finished(j) =>
            /\ \/ jobs[j].deletes >= 1
               \/ /\ jobs[j].pc = "returned"
                  /\ ~jobs[j].ret
                  /\ ~jobs[j].vm_made
                  /\ ~jobs[j].caught
                  /\ jobs[j].creates = 1
                  /\ jobs[j].polls = 0
            /\ jobs[j].vm_made => jobs[j].deletes >= 1

\* C5 witness: a job whose create command raised after the VM was made, and
\* which returned from the except clause after its deletion request.
C5_Witness ==
    \E j \in WatchedJobs :
        /\ jobs[j].pc = "returned"
        /\ jobs[j].caught
        /\ jobs[j].vm_made
        /\ jobs[j].polls = 0
        /\ jobs[j].deletes = 1

\* A job between the start of its create request and its return.
InFlight(j) ==
    jobs[j].pc \in {"create", "check_storage", "check_metadata", "sleep", "delete", "except"}

\* C6: at most max_concurrent jobs are in Provisioning or Polling at once.
C6_AtMostNInFlight ==
    Cardinality({j \in 1..Len(jobs) : InFlight(j)}) <= max_concurrent

\* C6 witness: five jobs, two workers, two jobs in flight, others waiting.
C6_Witness ==
    /\ max_concurrent = 2
    /\ Len(jobs) = 5
    /\ Cardinality({j \in 1..Len(jobs) : InFlight(j)}) = 2
    /\ \E j \in 1..Len(jobs) : jobs[j].pc = "queued"
    /\ \E j \in 1..Len(jobs) : jobs[j].pc = "returned"

\* C7: the summary's counters are the numbers of jobs that returned success
\* and failure, and add up to the number of dispatched jobs.
C7_SummaryCounts ==
    summary # <<>> =>
        /\ Len(jobs) = Len(images)
        /\ summary[1].successful + summary[1].failed = Len(jobs)
        /\ summary[1].successful =
              Cardinality({j \in 1..Len(jobs) : jobs[j].pc = "returned" /\ jobs[j].ret})
        /\ summary[1].failed =
              Cardinality({j \in 1..Len(jobs) : jobs[j].pc = "returned" /\ ~jobs[j].ret})

\* C7 witness: a summary over at least three jobs, of both outcomes.
C7_Witness ==
    /\ summary # <<>>
    /\ Len(jobs) >= 3
    /\ summary[1].successful >= 1
    /\ summary[1].failed >= 1

NonEmptyFields(row) == Cardinality({k \in 1..Len(row) : Strip(row[k]) # <<>>})

\* C8 (as claimed): one job per data row with at least two non-empty fields,
\* none for the others.
C8_OneJobPerCompleteRow ==
    images # <<>> =>
        Len(images) = Cardinality({i \in 2..Len(csv) : NonEmptyFields(csv[i]) >= 2})

CallsFor(bucket_name) ==
    {i \in 1..Len(ensure_calls) : ensure_calls[i].bucket_name = bucket_name}

TimesIssued(bucket_name, op) ==
    Cardinality({<<i, k>> \in (1..Len(ensure_calls)) \X (1..3) :
        /\ i \in CallsFor(bucket_name)
        /\ k <= Len(ensure_calls[i].issued)
        /\ ensure_calls[i].issued[k] = op})

C10_NoJobRaises == \A j \in 1..Len(jobs) : jobs[j].pc # "raised"

\* C11: an answer that is not y (once stripped and lowered, as main reads it)
\* makes the process exit with code 0 where the confirmation was reached,
\* with no call of the bucket ensurer and no job, hence no create request,
\* on that run; and before the answer is read nothing of the kind is done.
C11_NothingWithoutConfirmation ==
    /\ Lower(Strip(env.response)) # <<"y">> =>
          /\ pc \in {"main", "confirm", "exited"}
          /\ ensure_calls = <<>>
          /\ jobs = <<>>
          /\ pc = "exited" =>
                exit_code = IF /\ env.collector_exists
                               /\ env.gcloud_installed
                               /\ Strip(env.project) # <<>>
                            THEN 0 ELSE 1
    /\ pc \in {"main", "confirm"} => (ensure_calls = <<>> /\ jobs = <<>>)

\* C11 witness: the confirmation was reached, the answer was "yes", and the
\* process exited with code 0 with nothing done.
C11_Witness ==
    /\ pc = "exited"
    /\ exit_code = 0
    /\ env.response = <<"y", "e", "s">>
    /\ env.csv_exists
    /\ ensure_calls = <<>>
    /\ jobs = <<>>

\* C12 (as claimed): with the collector script, the CSV file, the gcloud tool
\* or the active project missing, or with no data row of two non-empty fields
\* in the CSV, no job is ever dispatched and the process, once the failure is
\* met, ends with exit code 1; with one of the two files missing the bucket
\* ensurer is never called.
C12_FatalPreconditionExits ==
    LET main_ok == /\ env.collector_exists
                   /\ env.gcloud_installed
                   /\ Strip(env.project) # <<>>
        files_ok == env.collector_exists /\ env.csv_exists
        no_valid_image == \A i \in 2..Len(csv) : NonEmptyFields(csv[i]) < 2
        declined == main_ok /\ Lower(Strip(env.response)) # <<"y">>
    IN  (~main_ok \/ ~files_ok \/ no_valid_image) =>
            /\ jobs = <<>>
            /\ pc \in {"exited", "crashed", "done"} =>
                    exit_code = IF declined THEN 0 ELSE 1
            /\ ~files_ok => ensure_calls = <<>>

\* C13: the step in which a job's create command reports an error takes the
\* job from its create request straight to its return: the result is failure,
\* one create request was issued, no completion check, no sleep and no
\* deletion request.
C13_CreateErrorFailsAtOnce ==
    [][\A j \in WatchedJobs :
          (jobs[j].pc = "create" /\ jobs'[j].pc = "returned") =>
              /\ ~jobs'[j].ret
              /\ jobs'[j].creates = 1
              /\ jobs'[j].polls = 0
              /\ jobs'[j].sleeps = 0
              /\ jobs'[j].deletes = 0]_vars

\* C13 witness: a job that returned failure from a create command that
\* reported an error, one create request issued and nothing else.
C13_Witness ==
    \E j \in WatchedJobs :
        /\ jobs[j].pc = "returned"
        /\ ~jobs[j].vm_made
        /\ ~jobs[j].caught
        /\ ~jobs[j].ret
        /\ jobs[j].creates = 1
        /\ jobs[j].polls = 0
        /\ jobs[j].sleeps = 0

\* C14: a job that runs, every command of which comes back, returns or
\* raises in the end; it makes at most floor(timeout / 20) + 1 completion
\* checks (none when the timeout is exceeded at the first iteration), one
\* sleep between two checks, and enters a check only with elapsed <= timeout.
C14_JobTerminates ==
    /\ [](\A j \in WatchedJobs :
            /\ jobs[j].polls <= (timeout \div SleepSeconds) + 1
            /\ timeout < 0 => jobs[j].polls = 0
            /\ jobs[j].sleeps <= jobs[j].polls
            /\ jobs[j].polls <= jobs[j].sleeps + 1
            /\ jobs[j].pc = "check_storage" => jobs[j].now <= timeout)
    /\ \A j \in {1, 2} :
          (j <= Len(jobs) /\ Running(j)) ~> (j <= Len(jobs) /\ Finished(j))

\* C14 witness: with the largest timeout, a job that made all the
\* floor(timeout / 20) + 1 checks, timed out and returned.
C14_Witness ==
    \E j \in WatchedJobs :
        /\ timeout = MaxTimeout
        /\ jobs[j].pc = "returned"
        /\ jobs[j].timed_out
        /\ jobs[j].polls = (timeout \div SleepSeconds) + 1
        /\ jobs[j].polls >= 2

\* C15 (as claimed): a completion check reports completion exactly when both
\* artifacts are among the objects under the image's prefix or the
\* instance's completion-status is success; it issues the listing first and
\* the metadata query only when the storage signal is absent.
C15_CompleteIffSignal ==
    pc = "checked" =>
        LET storage == Artifacts(check_arg.image_name) \subseteq check_arg.objects
            metadata == check_arg.status = "success"
        IN  /\ check_ret.result = (storage \/ metadata)
            /\ check_ret.commands = IF storage THEN <<"ls">> ELSE <<"ls", "describe">>

\* C16: the two counters are changed by the coordinator only: a step that
\* changes them changes no job, adds exactly one to exactly one of them and
\* takes the result of a job that has returned; the counters always add up
\* to the number of results taken, all of them of returned jobs; and the
\* summary line is there only when every dispatched job has returned.
C16_CountersByCoordinatorOnly ==
    /\ [](/\ successful + failed = next_future - 1
          /\ \A j \in 1..(next_future - 1) : jobs[j].pc = "returned"
          /\ successful =
                Cardinality({j \in 1..(next_future - 1) : jobs[j].ret})
          /\ summary # <<>> =>
                /\ Len(jobs) = Len(images)
                /\ next_future = Len(jobs) + 1
                /\ \A j \in 1..Len(jobs) : jobs[j].pc = "returned")
    /\ [][<<successful, failed>>' # <<successful, failed>> =>
            /\ jobs' = jobs
            /\ pc = "await"
            /\ jobs[next_future].pc = "returned"
            /\ next_future' = next_future + 1
            /\ <<successful', failed'>> =
                  IF jobs[next_future].ret THEN <<successful + 1, failed>>
                  ELSE <<successful, failed + 1>>]_vars

\* C16 witness: the result of the first job is counted while a later job
\* is still in flight.
C16_Witness ==
    /\ successful + failed >= 1
    /\ \E j \in 1..Len(jobs) : InFlight(j)
    /\ \E j \in 1..Len(jobs) : jobs[j].pc = "queued"

\* C17 (as claimed): every image of the list is handed to one job, and a
\* process that has ended has logged its summary, with every dispatched job
\* started and returned.
C17_BatchReachesSummary ==
    pc \in {"done", "crashed", "exited"} =>
        /\ summary # <<>>
        /\ Len(jobs) = Len(images)
        /\ \A j \in 1..Len(jobs) : jobs[j].pc = "returned"

C19_InitSummary ==
    pc = "parsed" =>
        LET HasLine(pieces) == \E line \in config_text : Strip(line) = pieces
            Y(option) == HasLine(<<option, "=y">>)
            N(option) == HasLine(<<"# ", option, " is not set">>)
        IN  /\ config_ret.init_stack =
                  IF Y("CONFIG_INIT_STACK_NONE") THEN "none"
                  ELSE IF Y("CONFIG_INIT_STACK_ALL_PATTERN") THEN "pattern"
                  ELSE IF Y("CONFIG_INIT_STACK_ALL_ZERO") THEN "zero"
                  ELSE IF /\ N("CONFIG_INIT_STACK_NONE")
                          /\ N("CONFIG_INIT_STACK_ALL_PATTERN")
                          /\ N("CONFIG_INIT_STACK_ALL_ZERO")
                  THEN "none"
                  ELSE "unknown"
            /\ config_ret.init_heap =
                  IF Y("CONFIG_INIT_ON_ALLOC_DEFAULT_ON") THEN "zero"
                  ELSE IF N("CONFIG_INIT_ON_ALLOC_DEFAULT_ON") THEN "none"
                  ELSE "unknown"

\* C19 witness: a file with the "=y" lines of _ALL_PATTERN and _ALL_ZERO,
\* the "is not set" line of _ALL_PATTERN too, and the heap option set on an
\* indented line next to its "is not set" line: 'pattern' and 'zero'.
C19_Witness ==
    /\ pc = "parsed"
    /\ SetLine("CONFIG_INIT_STACK_NONE") \notin config_text
    /\ {SetLine("CONFIG_INIT_STACK_ALL_PATTERN"), SetLine("CONFIG_INIT_STACK_ALL_ZERO"),
        NotSetLine("CONFIG_INIT_STACK_ALL_PATTERN")} \subseteq config_text
    /\ SetLine(HEAP_OPTION) \notin config_text
    /\ {<<" ", " ">> \o SetLine(HEAP_OPTION) \o <<" ">>, NotSetLine(HEAP_OPTION)}
          \subseteq config_text
    /\ config_ret = [init_stack |-> "pattern", init_heap |-> "zero"]

====
